---- MODULE Spec2Model ----
(***************************************************************************)
(* Model of tools/ssh/ssh_handler.py: the SSHConnect state (two session    *)
(* handles, two connection-status integers) and the operations of          *)
(* SSHConnect, SSHCommands, SCPFileTransfer and SSHHandler.  Every         *)
(* operation is one atomic step (the module is single-threaded and         *)
(* blocking); the behaviour of paramiko / scp (what each library call      *)
(* returns or raises) is an input of the step.                             *)
(*                                                                         *)
(* Observation variables record the last call: its name and arguments      *)
(* (call), the exception it raised (result), the value it returned (ret)   *)
(* and the library calls it made, in order (log).  Two more follow the     *)
(* sequence of calls: teardowns counts the disconnect_all calls in a row   *)
(* that returned, scenario the steps made of the end-to-end scenario.      *)
(***************************************************************************)
EXTENDS Integers, Sequences, FiniteSets

VARIABLES
    ssh_session,            \* 0 (None) or the id of a paramiko.SSHClient
    scp_session,            \* 0 (None) or the id of the SSHClient whose transport the SCPClient wraps
    ssh_connection_status,  \* 2 Connected, 1 Disconnected, 0 Connection Failed
    scp_connection_status,  \* 2 Connected, 1 Disconnected, 0 Connection Failed
    next_client,            \* id the next paramiko.SSHClient() gets
    open_clients,           \* ids of the clients whose connect succeeded and that were not closed
    call,                   \* the last call: [op, key, force]
    result,                 \* the exception the last call raised: [exc, msg]
    ret,                    \* the value the last call returned
    log,                    \* the library calls the last call made, in order
    teardowns,              \* ending the calls made: 0, 1, or 2 and more disconnect_all calls that raised nothing
    scenario                \* the calls made are the first `scenario` steps of ScenarioOps, no library call failing

vars == <<ssh_session, scp_session, ssh_connection_status, scp_connection_status,
          next_client, open_clients, call, result, ret, log, teardowns, scenario>>

----------------------------------------------------------------------------
(* Bounds of the model *)

\* number of paramiko.SSHClient objects one behaviour may create
MaxClients == 2

\* number of lines stdout.readlines() may return
MaxLines == 2

----------------------------------------------------------------------------
(* Values *)

None == 0

Connected == 2
Disconnected == 1
ConnectionFailed == 0

max_connection_attempts == 2
retry_delay == 1

NoError == [exc |-> "none", msg |-> ""]
Raise(e, m) == [exc |-> e, msg |-> m]

ReturnNone == [kind |-> "None", handle |-> 0, lines |-> <<>>, status |-> 0]
ReturnHandle(h) == [kind |-> "handle", handle |-> h, lines |-> <<>>, status |-> 0]
ReturnLines(l) == [kind |-> "lines", handle |-> 0, lines |-> l, status |-> 0]
ReturnLinesStatus(l, st) == [kind |-> "lines_status", handle |-> 0, lines |-> l, status |-> st]

\* A library call in the log: its name, how it ended, and the number (val) or
\* the lines (data) it was given or returned.
LibCall(c, o) == [call |-> c, out |-> o, val |-> 0, data |-> <<>>]

\* What a library call does: returns ("ok") or raises an exception of one of
\* the classes the handlers tell apart.
\*   auth  paramiko.ssh_exception.AuthenticationException
\*   os    OSError            ssh  paramiko.SSHException (not authentication)
\*   other any other Exception
ConnectOutcomes == {"ok", "auth", "os", "ssh", "other"}
RetryableOutcomes == {"os", "ssh", "other"}
CloseOutcomes == {"ok", "os", "ssh", "other"}
ExecOutcomes == {"ok", "ssh", "other"}
\*   notfound FileNotFoundError, perm PermissionError, timeout TimeoutError (all
\*   three are OSError subclasses), scp scp.SCPException
CopyOutcomes == {"ok", "notfound", "perm", "timeout", "os", "scp", "ssh", "other"}

\* The state of the SSHConnect object, as a record.
Self ==
    [ssh_session |-> ssh_session, scp_session |-> scp_session,
     ssh_connection_status |-> ssh_connection_status,
     scp_connection_status |-> scp_connection_status,
     next_client |-> next_client, open_clients |-> open_clients]

\* What a call leaves: the object's state, the exception, the return value, the log.
Outcome(s, exc, rv, lg) ==
    [ssh_session |-> s.ssh_session, scp_session |-> s.scp_session,
     ssh_connection_status |-> s.ssh_connection_status,
     scp_connection_status |-> s.scp_connection_status,
     next_client |-> s.next_client, open_clients |-> s.open_clients,
     result |-> exc, ret |-> rv, log |-> lg]

StateOf(r) ==
    [ssh_session |-> r.ssh_session, scp_session |-> r.scp_session,
     ssh_connection_status |-> r.ssh_connection_status,
     scp_connection_status |-> r.scp_connection_status,
     next_client |-> r.next_client, open_clients |-> r.open_clients]

----------------------------------------------------------------------------
(* SSHConnect.__init__ *)

SSHConnect_init ==
    [ssh_session |-> None, scp_session |-> None,
     ssh_connection_status |-> Disconnected, scp_connection_status |-> Disconnected,
     next_client |-> 1, open_clients |-> {}]

----------------------------------------------------------------------------
(* SSHConnect.ssh_connect *)

\* One attempt's input: what connect() does and, on the path without a key,
\* what get_transport().auth_none() does.
AttemptInputs == [conn : ConnectOutcomes, none : ConnectOutcomes]

\* The inputs of one ssh_connect call: an input per attempt. What a call that
\* is not made would do is left out (auth_none is not called with a key, line
\* 124, nor after connect() raised something else than a rejection, line 128).
KeyedAttempts == {a \in AttemptInputs : a.none = "ok"}
KeylessAttempts == {a \in AttemptInputs : a.conn \notin {"ok", "auth"} => a.none = "ok"}
KeyedInputs == [1..max_connection_attempts -> KeyedAttempts]
KeylessInputs == [1..max_connection_attempts -> KeylessAttempts]
\* the input of a call that makes no attempt
NoAttempts == [i \in 1..max_connection_attempts |-> [conn |-> "ok", none |-> "ok"]]
ConnectInputs(ssh_key_path) == IF ssh_key_path THEN KeyedInputs ELSE KeylessInputs

AlreadyConnected_inverted(status, force_connect) == status = Connected /\ force_connect

\* line 110
AlreadyConnected(status, force_connect) == status = Connected /\ ~force_connect

TryConnect_unsuppressed(ssh_key_path, a) ==
    IF ssh_key_path \/ a.conn # "ok"
    THEN [log |-> <<LibCall("connect", a.conn)>>, out |-> a.conn]
    ELSE [log |-> <<LibCall("connect", a.conn), LibCall("auth_none", a.none)>>,
          out |-> a.none]

\* lines 123-130: the body of the try block. Returns the library calls made and
\* the way the block ends: "ok", or the class of the exception that leaves it.
TryConnect(ssh_key_path, a) ==
    IF ssh_key_path
    THEN [log |-> <<LibCall("connect", a.conn)>>, out |-> a.conn]
    ELSE IF a.conn \in {"ok", "auth"}    \* suppress(AuthenticationException)
         THEN [log |-> <<LibCall("connect", a.conn), LibCall("auth_none", a.none)>>,
               out |-> a.none]
         ELSE [log |-> <<LibCall("connect", a.conn)>>, out |-> a.conn]

IsAuthenticationException_shadowed(out) == FALSE

\* line 135: the except clause that raises instead of retrying
IsAuthenticationException(out) == out = "auth"

Remember_first(last_exception, e) == IF last_exception = "none" THEN e ELSE last_exception

\* lines 140, 152, 157: last_exception = e
Remember(last_exception, e) == e

\* line 164
Sleep == [call |-> "sleep", out |-> "ok", val |-> retry_delay, data |-> <<>>]

RetryPending_always(connection_attempts) == connection_attempts < max_connection_attempts

\* line 160
RetryPending(connection_attempts) == connection_attempts < max_connection_attempts - 1

\* lines 122-164: the for loop from iteration connection_attempts on.
RECURSIVE ConnectLoop(_, _, _, _, _)
ConnectLoop(connection_attempts, ssh_key_path, attempts, last_exception, lg) ==
    IF connection_attempts >= max_connection_attempts
    THEN [end |-> "exhausted", last_exception |-> last_exception, log |-> lg]
    ELSE LET t == TryConnect(ssh_key_path, attempts[connection_attempts + 1])
         IN  IF t.out = "ok"
             THEN [end |-> "ok", last_exception |-> last_exception, log |-> lg \o t.log]
             ELSE IF IsAuthenticationException(t.out)
             THEN [end |-> "auth", last_exception |-> last_exception, log |-> lg \o t.log]
             ELSE ConnectLoop(connection_attempts + 1, ssh_key_path, attempts,
                              Remember(last_exception, t.out),
                              lg \o t.log \o
                                (IF RetryPending(connection_attempts)
                                 THEN <<Sleep>> ELSE <<>>))

\* lines 166-176: the exception raised after the loop
ExhaustedError(last_exception) ==
    IF last_exception = "os" THEN Raise("NetworkError", "Network error occurred")
    ELSE IF last_exception = "ssh" THEN Raise("SSHConnectionError", "SSH Connection failed")
    ELSE Raise("UnknownError", "SSH Connection failed due to an unknown reason")

\* lines 167, 170, 173
StatusAfterExhaustion == ConnectionFailed

ssh_connect_reports_first(s, ssh_key_path, force_connect, attempts) ==
    IF AlreadyConnected(s.ssh_connection_status, force_connect)
    THEN Outcome(s, Raise("SSHAlreadyConnectedError", "SSH Connection already established"),
                 ReturnNone, <<>>)
    ELSE LET client == s.next_client
             s1 == [s EXCEPT !.ssh_session = client, !.next_client = client + 1]
             l == ConnectLoop(0, ssh_key_path, attempts, "none", <<>>)
         IN  IF l.end = "ok" /\ l.last_exception = "none"
             THEN Outcome([s1 EXCEPT !.ssh_connection_status = Connected,
                                     !.open_clients = @ \cup {client}],
                          NoError, ReturnHandle(client), l.log)
             ELSE IF l.end = "auth"
             THEN Outcome(s1, Raise("SSHAuthenticationError",
                                    "Authentication failed, verify SSH Key and credentials"),
                          ReturnNone, l.log)
             ELSE Outcome([s1 EXCEPT !.ssh_connection_status = StatusAfterExhaustion],
                          ExhaustedError(l.last_exception), ReturnNone, l.log)

ssh_connect(s, ssh_key_path, force_connect, attempts) ==
    IF AlreadyConnected(s.ssh_connection_status, force_connect)
    THEN Outcome(s, Raise("SSHAlreadyConnectedError", "SSH Connection already established"),
                 ReturnNone, <<>>)
    ELSE LET client == s.next_client
             s1 == [s EXCEPT !.ssh_session = client, !.next_client = client + 1]
             l == ConnectLoop(0, ssh_key_path, attempts, "none", <<>>)
         IN  IF l.end = "ok"
             THEN Outcome([s1 EXCEPT !.ssh_connection_status = Connected,
                                     !.open_clients = @ \cup {client}],
                          NoError, ReturnHandle(client), l.log)
             ELSE IF l.end = "auth"
             THEN Outcome(s1, Raise("SSHAuthenticationError",
                                    "Authentication failed, verify SSH Key and credentials"),
                          ReturnNone, l.log)
             ELSE Outcome([s1 EXCEPT !.ssh_connection_status = StatusAfterExhaustion],
                          ExhaustedError(l.last_exception), ReturnNone, l.log)

----------------------------------------------------------------------------
(* SSHConnect.ssh_disconnect *)

SSHCloseError_raw(out) ==
    IF out = "ssh" THEN Raise("SSHException", "close")
    ELSE IF out = "os" THEN Raise("OSError", "close")
    ELSE Raise("Exception", "close")

\* lines 205-207: what an exception raised by close() becomes
SSHCloseError(out) ==
    IF out \in {"ssh", "os"} THEN Raise("SSHConnectionError", "SSH Disconnection failed")
    ELSE Raise("Exception", "close")

StatusAfterNoSession_reset(status) == Disconnected

\* lines 201-204: the status left by a disconnect without a session
StatusAfterNoSession(status) == status

ssh_disconnect(s, close) ==
    IF s.ssh_connection_status = Connected
    THEN IF close = "ok"
         THEN Outcome([s EXCEPT !.ssh_connection_status = Disconnected,
                                !.ssh_session = None,
                                !.open_clients = @ \ {s.ssh_session}],
                      NoError, ReturnNone, <<LibCall("ssh_close", "ok")>>)
         ELSE Outcome(s, SSHCloseError(close), ReturnNone, <<LibCall("ssh_close", close)>>)
    ELSE Outcome([s EXCEPT !.ssh_connection_status = StatusAfterNoSession(@)],
                 Raise("SSHConnectionError", "SSH Disconnection failed: No SSH session to close"),
                 ReturnNone, <<>>)

----------------------------------------------------------------------------
(* SSHConnect.scp_connect *)

StatusAfterNoSSH_kept(status) == status

\* lines 235-239 (and 245-249, which catch and re-raise the SCPConnectionError):
\* the channel status left when there is no SSH session
StatusAfterNoSSH(status) == ConnectionFailed

SSHConnected_or_failed(status) == status # Disconnected

\* line 228
SSHConnected(status) == status = Connected

scp_connect(s, construct) ==
    IF SSHConnected(s.ssh_connection_status)
    THEN IF s.ssh_session # None
         THEN IF construct = "ok"
              THEN Outcome([s EXCEPT !.scp_session = s.ssh_session,
                                     !.scp_connection_status = Connected],
                           NoError, ReturnHandle(s.ssh_session), <<LibCall("SCPClient", "ok")>>)
              ELSE Outcome([s EXCEPT !.scp_connection_status = ConnectionFailed],
                           Raise("SCPConnectionError", "SCP Connection failed"),
                           ReturnNone, <<LibCall("SCPClient", construct)>>)
         ELSE Outcome(s, NoError, ReturnNone, <<>>)
    \* line 239 raises inside the try block: the clause of line 245 catches the
    \* SCPConnectionError and line 249 raises a new one around its message
    ELSE Outcome([s EXCEPT !.scp_connection_status = StatusAfterNoSSH(@)],
                 Raise("SCPConnectionError",
                       "SCP Connection failed: SCP Connection failed: No SSH session available"),
                 ReturnNone, <<>>)

----------------------------------------------------------------------------
(* SSHConnect.scp_disconnect *)

SCPCloseError_raw(out) ==
    IF out \in {"ssh", "os"} THEN Raise("SCPConnectionError", "SCP Disconnection failed")
    ELSE Raise("Exception", "close")

\* lines 276-283: what an exception raised by close() becomes
SCPCloseError(out) ==
    IF out \in {"ssh", "os"} THEN Raise("SCPConnectionError", "SCP Disconnection failed")
    ELSE Raise("SCPConnectionError", "SCP Disconnection failed for an unknown reason")

\* lines 273-275, 280-283: line 275 raises inside the try block, the clause of
\* line 280 catches the SCPConnectionError and line 283 raises a new one around
\* its message
NoSCPSessionError ==
    Raise("SCPConnectionError",
          "SCP Disconnection failed for an unknown reason: SCP Disconnection failed: No SCP session to close")

scp_disconnect_resets(s, close) ==
    IF s.scp_connection_status = Connected
    THEN Outcome([s EXCEPT !.scp_connection_status = Disconnected,
                           !.scp_session = None],
                 IF close = "ok" THEN NoError ELSE SCPCloseError(close),
                 ReturnNone, <<LibCall("scp_close", close)>>)
    ELSE Outcome(s, NoSCPSessionError, ReturnNone, <<>>)

scp_disconnect(s, close) ==
    IF s.scp_connection_status = Connected
    THEN IF close = "ok"
         THEN Outcome([s EXCEPT !.scp_connection_status = Disconnected,
                                !.scp_session = None],
                      NoError, ReturnNone, <<LibCall("scp_close", "ok")>>)
         ELSE Outcome(s, SCPCloseError(close), ReturnNone, <<LibCall("scp_close", close)>>)
    ELSE Outcome(s, NoSCPSessionError, ReturnNone, <<>>)

----------------------------------------------------------------------------
(* SSHConnect.disconnect_all *)

NeedsClose_always(status) == TRUE

NeedsClose_inverted(status) == status # Connected

\* lines 301, 304
NeedsClose(status) == status = Connected

WrappedByDisconnectAll_ssh_only(exc) == exc = "SSHConnectionError"

\* line 311: the exceptions disconnect_all wraps
WrappedByDisconnectAll(exc) == exc \in {"SCPConnectionError", "SSHConnectionError"}

\* lines 311-312
DisconnectAllError(exc) ==
    IF WrappedByDisconnectAll(exc.exc)
    THEN Raise("SSHError", "An error occurred when disconnecting all sessions")
    ELSE exc

disconnect_all(s, scp_close, ssh_close) ==
    LET r1 == IF NeedsClose(s.scp_connection_status)
              THEN scp_disconnect(s, scp_close)
              ELSE Outcome(s, NoError, ReturnNone, <<>>)
    IN  IF r1.result # NoError
        THEN Outcome(StateOf(r1), DisconnectAllError(r1.result), ReturnNone, r1.log)
        ELSE LET r2 == IF NeedsClose(r1.ssh_connection_status)
                       THEN ssh_disconnect(StateOf(r1), ssh_close)
                       ELSE Outcome(StateOf(r1), NoError, ReturnNone, <<>>)
             IN  Outcome(StateOf(r2), DisconnectAllError(r2.result), ReturnNone,
                         r1.log \o r2.log)

----------------------------------------------------------------------------
(* SSHCommands *)

\* What stdout.readlines() may return: lines that end with "\n", but for the
\* last one, which may lack it. A line is a sequence of characters.
TerminatedLines == {<<"o", "k", "\r", "\n">>, <<"a", "\r", "b", "\n">>}
UnterminatedLines == {<<"o", "k">>}
ReadLines ==
    {<<>>} \cup
    UNION {{o \in [1..n -> TerminatedLines \cup UnterminatedLines] :
               \A i \in 1..(n - 1) : o[i] \in TerminatedLines} : n \in 1..MaxLines}

\* What stdout.channel.recv_exit_status() may return (-1: no status was sent)
ExitStatuses == {-1, 0, 1}

\* The inputs of a command that reads its output: exec_command() raises, or
\* it returns and readlines() (and recv_exit_status()) return.
CapturedInputs ==
    {[exec |-> e, output |-> <<>>] : e \in ExecOutcomes \ {"ok"}} \cup
    {[exec |-> "ok", output |-> o] : o \in ReadLines}
CapturedStatusInputs ==
    {[exec |-> e, output |-> <<>>, exit_status |-> 0] : e \in ExecOutcomes \ {"ok"}} \cup
    {[exec |-> "ok", output |-> o, exit_status |-> x] : o \in ReadLines, x \in ExitStatuses}

\* lines 362, 394 and 397 in the log
ReadLinesCall(output) == [call |-> "readlines", out |-> "ok", val |-> 0, data |-> output]
ExitStatusCall(x) == [call |-> "recv_exit_status", out |-> "ok", val |-> x, data |-> <<>>]

\* What exec_command() raises becomes the caller's exception unchanged
ExecError(exec) ==
    IF exec = "ssh" THEN Raise("SSHException", "exec_command") ELSE Raise("Exception", "exec_command")

NotLineFeed(c) == c # "\n"
StripLine_lf(s) == SelectSeq(s, NotLineFeed)

NotLineEnd(c) == c \notin {"\n", "\r"}

\* lines 369, 404: s.replace("\n", "").replace("\r", "")
StripLine(s) == SelectSeq(s, NotLineEnd)

\* lines 369, 404: the list comprehension
StripLines(output) == [i \in 1..Len(output) |-> StripLine(output[i])]

\* line 407: not exit_status
Falsy(exit_status) == exit_status = 0

\* lines 338-341: a command without an SSH session
NoSessionError == Raise("ExecuteCommandError", "SSH Command execution failed: No SSH session available")

execute_command_marks_failed(s, exec) ==
    IF s.ssh_connection_status = Connected
    THEN IF exec = "ok"
         THEN Outcome(s, NoError, ReturnNone, <<LibCall("exec_command", "ok")>>)
         ELSE Outcome([s EXCEPT !.ssh_connection_status = ConnectionFailed],
                      ExecError(exec), ReturnNone, <<LibCall("exec_command", exec)>>)
    ELSE Outcome(s, NoSessionError, ReturnNone, <<>>)

execute_command(s, exec) ==
    IF s.ssh_connection_status = Connected
    THEN Outcome(s, IF exec = "ok" THEN NoError ELSE ExecError(exec), ReturnNone,
                 <<LibCall("exec_command", exec)>>)
    ELSE Outcome(s, NoSessionError, ReturnNone, <<>>)

execute_command_with_output(s, exec, output) ==
    IF s.ssh_connection_status = Connected
    THEN IF exec # "ok"
         THEN Outcome(s, ExecError(exec), ReturnNone, <<LibCall("exec_command", exec)>>)
         ELSE IF output = <<>>
         THEN Outcome(s, Raise("ExecuteCommandError", "The command did not return any output"),
                      ReturnNone, <<LibCall("exec_command", "ok"), ReadLinesCall(output)>>)
         ELSE Outcome(s, NoError, ReturnLines(StripLines(output)),
                      <<LibCall("exec_command", "ok"), ReadLinesCall(output)>>)
    ELSE Outcome(s, NoError, ReturnNone, <<>>)   \* no else branch: the method returns None

execute_command_with_exit_status(s, exec, output, exit_status) ==
    IF s.ssh_connection_status = Connected
    THEN IF exec # "ok"
         THEN Outcome(s, ExecError(exec), ReturnNone, <<LibCall("exec_command", exec)>>)
         ELSE LET lg == <<LibCall("exec_command", "ok"), ReadLinesCall(output),
                          ExitStatusCall(exit_status)>>
              IN  IF output = <<>>
                  THEN Outcome(s, Raise("ExecuteCommandError",
                                        "The command did not return any output"),
                               ReturnNone, lg)
                  ELSE IF Falsy(exit_status)
                  THEN Outcome(s, Raise("ExecuteCommandError",
                                        "The command did not return an exit status"),
                               ReturnNone, lg)
                  ELSE Outcome(s, NoError, ReturnLinesStatus(StripLines(output), exit_status), lg)
    ELSE Outcome(s, NoError, ReturnNone, <<>>)   \* no else branch: the method returns None

----------------------------------------------------------------------------
(* SCPFileTransfer *)

NoChannel_disconnected(status) == status = Disconnected

\* lines 441, 514
NoChannel(status) == status # Connected

\* lines 441-443, 514-516
NoChannelError == Raise("SCPConnectionError", "There is no established SCP connection")

PushError_os_first(put) ==
    IF put \in {"notfound", "perm", "timeout", "os"}
    THEN Raise("SCPTransferError", "Unknown OS error")
    ELSE IF put = "scp" THEN Raise("SCPTransferError", "Remote path does not exist")
    ELSE IF put = "ssh" THEN Raise("SCPTransferError", "SSH Connection failed during SCP Put")
    ELSE Raise("SCPTransferError", "Unexpected exception occurred during SCP Put")

\* lines 449-469: the except clauses of push_file
PushError(put) ==
    IF put = "notfound" THEN Raise("SCPTransferError", "Local file not found")
    ELSE IF put = "perm" THEN Raise("SCPTransferError", "Permission denied")
    ELSE IF put = "timeout" THEN Raise("SCPTransferError", "SCP operation timed out")
    ELSE IF put = "os" THEN Raise("SCPTransferError", "Unknown OS error")
    ELSE IF put = "scp" THEN Raise("SCPTransferError", "Remote path does not exist")
    ELSE IF put = "ssh" THEN Raise("SCPTransferError", "SSH Connection failed during SCP Put")
    ELSE Raise("SCPTransferError", "Unexpected exception occurred during SCP Put")

\* lines 521-542: the except clauses of pull_file
PullError(get) ==
    IF get = "scp" THEN Raise("SCPTransferError", "Unknown SCP error occurred")
    ELSE IF get = "ssh" THEN Raise("SCPTransferError", "SSH error occurred during SCP operation")
    ELSE IF get = "perm" THEN Raise("SCPTransferError", "Permission denied")
    ELSE IF get = "notfound" THEN Raise("SCPTransferError", "Local path does not exist")
    ELSE IF get = "timeout" THEN Raise("SCPTransferError", "SCP operation timed out")
    ELSE IF get = "os" THEN Raise("SCPTransferError", "Unknown OS error")
    ELSE Raise("SCPTransferError", "Unexpected error occurred during SCP operation")

push_file(s, put) ==
    IF NoChannel(s.scp_connection_status)
    THEN Outcome(s, NoChannelError, ReturnNone, <<>>)
    ELSE Outcome(s, IF put = "ok" THEN NoError ELSE PushError(put), ReturnNone,
                 <<LibCall("put", put)>>)

pull_file(s, get) ==
    IF NoChannel(s.scp_connection_status)
    THEN Outcome(s, NoChannelError, ReturnNone, <<>>)
    ELSE Outcome(s, IF get = "ok" THEN NoError ELSE PullError(get), ReturnNone,
                 <<LibCall("get", get)>>)

----------------------------------------------------------------------------
(* SSHHandler.__init__ *)

SSHHandler_init_retry(ssh_key_path, attempts) ==
    LET r1 == ssh_connect(SSHConnect_init, ssh_key_path, FALSE, attempts)
        r2 == ssh_connect(StateOf(r1), ssh_key_path, TRUE, attempts)
    IN  IF r1.result = NoError
        THEN Outcome(StateOf(r1), r1.result, ReturnNone, r1.log)
        ELSE Outcome(StateOf(r2), r2.result, ReturnNone, r1.log \o r2.log)

\* lines 559-562: SSHConnect.__init__, then ssh_connect called as a statement:
\* the client it returns is dropped and __init__ returns None
SSHHandler_init(ssh_key_path, attempts) ==
    LET r == ssh_connect(SSHConnect_init, ssh_key_path, FALSE, attempts)
    IN  Outcome(StateOf(r), r.result, ReturnNone, r.log)

----------------------------------------------------------------------------
(* The state machine *)

Called(op, key, force) == [op |-> op, key |-> key, force |-> force]

Init ==
    /\ ssh_session = SSHConnect_init.ssh_session
    /\ scp_session = SSHConnect_init.scp_session
    /\ ssh_connection_status = SSHConnect_init.ssh_connection_status
    /\ scp_connection_status = SSHConnect_init.scp_connection_status
    /\ next_client = SSHConnect_init.next_client
    /\ open_clients = SSHConnect_init.open_clients
    /\ call = Called("SSHConnect.__init__", FALSE, FALSE)
    /\ result = NoError
    /\ ret = ReturnNone
    /\ log = <<>>
    /\ teardowns = 0
    /\ scenario = 0

\* The end-to-end scenario: the methods called, in order, on a new object
ScenarioOps ==
    <<"SSHHandler.__init__", "scp_connect", "push_file", "execute_command_with_output",
      "pull_file", "disconnect_all">>

\* The call c that ends as r is the next step of the scenario: the method is
\* the next one, the handler is built without a key, every library call
\* returned and the command gave at least one line.
ScenarioStep(c, r) ==
    /\ scenario < Len(ScenarioOps)
    /\ c.op = ScenarioOps[scenario + 1]
    /\ ~c.key
    /\ \A i \in DOMAIN r.log : r.log[i].out = "ok"
    /\ \A i \in DOMAIN r.log : r.log[i].call = "readlines" => r.log[i].data # <<>>

\* The step that makes call c and ends as r
Step(c, r) ==
    /\ ssh_session' = r.ssh_session
    /\ scp_session' = r.scp_session
    /\ ssh_connection_status' = r.ssh_connection_status
    /\ scp_connection_status' = r.scp_connection_status
    /\ next_client' = r.next_client
    /\ open_clients' = r.open_clients
    /\ call' = c
    /\ result' = r.result
    /\ ret' = r.ret
    /\ log' = r.log
    /\ teardowns' = IF c.op = "disconnect_all" /\ r.result = NoError
                    THEN (IF teardowns = 0 THEN 1 ELSE 2)
                    ELSE 0
    /\ scenario' = IF ScenarioStep(c, r) THEN scenario + 1 ELSE 0

\* An object whose SSHHandler constructor raised is bound to no name.
Usable == ~(call.op = "SSHHandler.__init__" /\ result # NoError)

\* A command or a copy can succeed only over a transport that is open.
SSHUp == ssh_session \in open_clients
SCPUp == scp_session \in open_clients

ConstructHandler ==
    /\ call.op = "SSHConnect.__init__"
    /\ \E key \in BOOLEAN : \E attempts \in ConnectInputs(key) :
          Step(Called("SSHHandler.__init__", key, FALSE), SSHHandler_init(key, attempts))

Connect ==
    /\ Usable
    /\ \E key \in BOOLEAN, force \in BOOLEAN :
          IF AlreadyConnected(ssh_connection_status, force)
          THEN Step(Called("ssh_connect", key, force), ssh_connect(Self, key, force, NoAttempts))
          ELSE /\ next_client <= MaxClients
               /\ \E attempts \in ConnectInputs(key) :
                     Step(Called("ssh_connect", key, force),
                          ssh_connect(Self, key, force, attempts))

Disconnect ==
    /\ Usable
    /\ \E close \in CloseOutcomes :
          Step(Called("ssh_disconnect", FALSE, FALSE), ssh_disconnect(Self, close))

OpenChannel ==
    /\ Usable
    /\ \E construct \in CloseOutcomes :
          Step(Called("scp_connect", FALSE, FALSE), scp_connect(Self, construct))

CloseChannel ==
    /\ Usable
    /\ \E close \in CloseOutcomes :
          Step(Called("scp_disconnect", FALSE, FALSE), scp_disconnect(Self, close))

DisconnectAll ==
    /\ Usable
    /\ \E scp_close \in CloseOutcomes, ssh_close \in CloseOutcomes :
          Step(Called("disconnect_all", FALSE, FALSE), disconnect_all(Self, scp_close, ssh_close))

Run ==
    /\ Usable
    /\ \E exec \in ExecOutcomes :
          /\ exec = "ok" => SSHUp
          /\ Step(Called("execute_command", FALSE, FALSE), execute_command(Self, exec))

RunCaptured ==
    /\ Usable
    /\ \E in \in CapturedInputs :
          /\ in.exec = "ok" => SSHUp
          /\ Step(Called("execute_command_with_output", FALSE, FALSE),
                  execute_command_with_output(Self, in.exec, in.output))

RunCapturedWithStatus ==
    /\ Usable
    /\ \E in \in CapturedStatusInputs :
          /\ in.exec = "ok" => SSHUp
          /\ Step(Called("execute_command_with_exit_status", FALSE, FALSE),
                  execute_command_with_exit_status(Self, in.exec, in.output, in.exit_status))

Push ==
    /\ Usable
    /\ \E put \in CopyOutcomes :
          /\ put = "ok" => SCPUp
          /\ Step(Called("push_file", FALSE, FALSE), push_file(Self, put))

Pull ==
    /\ Usable
    /\ \E get \in CopyOutcomes :
          /\ get = "ok" => SCPUp
          /\ Step(Called("pull_file", FALSE, FALSE), pull_file(Self, get))

Next ==
    \/ ConstructHandler
    \/ Connect
    \/ Disconnect
    \/ OpenChannel
    \/ CloseChannel
    \/ DisconnectAll
    \/ Run
    \/ RunCaptured
    \/ RunCapturedWithStatus
    \/ Push
    \/ Pull

Spec == Init /\ [][Next]_vars

----------------------------------------------------------------------------
(* Reading the record of the last call *)

ConnectCalled == call.op \in {"ssh_connect", "SSHHandler.__init__"}

\* The positions of the log where an attempt starts, where one ends, and where
\* the retry delay is taken
AttemptStarts(lg) == {i \in DOMAIN lg : lg[i].call = "connect"}
AttemptEnds(lg) ==
    {i \in DOMAIN lg :
        /\ lg[i].call \in {"connect", "auth_none"}
        /\ i < Len(lg) => lg[i + 1].call # "auth_none"}
Delays(lg) == {i \in DOMAIN lg : lg[i].call = "sleep"}

----------------------------------------------------------------------------
(* Transport Session: connect *)

\* C1: a connect called while the status is Connected and force_connect is
\* false raises SSHAlreadyConnectedError, makes no library call at all (no
\* connection attempt), and leaves ssh_session and ssh_connection_status as
\* they were.
C1_AlreadyConnectedRefused ==
    [][(call'.op = "ssh_connect" /\ ssh_connection_status = Connected /\ ~call'.force)
          => /\ result'.exc = "SSHAlreadyConnectedError"
             /\ log' = <<>>
             /\ ssh_session' = ssh_session
             /\ ssh_connection_status' = ssh_connection_status]_vars

C1_Witness ==
    /\ call = Called("ssh_connect", TRUE, FALSE)
    /\ result.exc = "SSHAlreadyConnectedError"
    /\ ssh_connection_status = Connected
    /\ ssh_session \in open_clients

\* C3: when connect() of a call made with a key raises AuthenticationException,
\* that is the last library call of ssh_connect (no further attempt, no sleep
\* after it) and ssh_connect raises SSHAuthenticationError; a rejection of the
\* first attempt therefore means one attempt and no sleep in total.
C3_RejectionIsTerminal ==
    (ConnectCalled /\ call.key) =>
        \A i \in DOMAIN log :
            log[i] = LibCall("connect", "auth") =>
                /\ i = Len(log)
                /\ result.exc = "SSHAuthenticationError"
                /\ i = 1 => (Cardinality(AttemptStarts(log)) = 1 /\ Delays(log) = {})

C3_Witness ==
    /\ call = Called("ssh_connect", TRUE, FALSE)
    /\ log = <<LibCall("connect", "auth")>>
    /\ result.exc = "SSHAuthenticationError"

\* C4: whatever the attempts do, ssh_connect makes at most 2 attempts and
\* sleeps only between the first and the second one: a sleep is never the
\* first nor the last library call, exactly one attempt comes before it and an
\* attempt follows it at once. When every attempt ends in an OSError, there
\* are exactly 2 attempts and one sleep, and NetworkError is raised.
C4_BoundedRetry ==
    ConnectCalled =>
        /\ Cardinality(AttemptStarts(log)) <= 2
        /\ \A i \in Delays(log) :
              /\ 1 < i /\ i < Len(log)
              /\ Cardinality({j \in AttemptStarts(log) : j < i}) = 1
              /\ log[i + 1].call = "connect"
              /\ log[i].val = 1
        /\ (AttemptEnds(log) # {} /\ \A i \in AttemptEnds(log) : log[i].out = "os") =>
              /\ Cardinality(AttemptStarts(log)) = 2
              /\ Cardinality(Delays(log)) = 1
              /\ result.exc = "NetworkError"

C4_Witness ==
    /\ call = Called("ssh_connect", TRUE, FALSE)
    /\ log = <<LibCall("connect", "os"), Sleep, LibCall("connect", "os")>>
    /\ result.exc = "NetworkError"

\* C5: when every attempt of ssh_connect fails with a retryable failure (the
\* attempts are exhausted), the exception raised follows from the failure of
\* the last attempt alone: OSError gives NetworkError, SSHException gives
\* SSHConnectionError, any other exception gives UnknownError.
C5_LastFailureDecides ==
    (/\ ConnectCalled
     /\ Cardinality(AttemptEnds(log)) = 2
     /\ \A i \in AttemptEnds(log) : log[i].out \in RetryableOutcomes) =>
        LET last == log[Len(log)].out
        IN  result.exc = CASE last = "os" -> "NetworkError"
                           [] last = "ssh" -> "SSHConnectionError"
                           [] OTHER -> "UnknownError"

C5_Witness ==
    /\ call = Called("ssh_connect", TRUE, FALSE)
    /\ log = <<LibCall("connect", "os"), Sleep, LibCall("connect", "ssh")>>
    /\ result.exc = "SSHConnectionError"

\* C6: when ssh_connect fails after every attempt failed with a retryable
\* failure, ssh_connection_status is 0 (Connection Failed); and once the status
\* is 0 it stays 0 under every call (execute_command, the two capturing
\* commands, scp_connect, scp_disconnect, push_file, pull_file, ssh_disconnect,
\* disconnect_all, and connects that fail) other than a connect that ends
\* without an exception.
C6_FailedUntilConnect ==
    [][/\ (/\ ConnectCalled'
           /\ result'.exc \in {"NetworkError", "SSHConnectionError", "UnknownError"})
          => ssh_connection_status' = ConnectionFailed
       /\ (/\ ssh_connection_status = ConnectionFailed
           /\ ~(ConnectCalled' /\ result' = NoError))
          => ssh_connection_status' = ConnectionFailed]_vars

C6_Witness ==
    /\ call.op = "ssh_disconnect"
    /\ result.exc = "SSHConnectionError"
    /\ ssh_connection_status = ConnectionFailed

----------------------------------------------------------------------------
(* Command Execution *)

CommandOps ==
    {"execute_command", "execute_command_with_output", "execute_command_with_exit_status"}

\* C2: a command (execute_command, execute_command_with_output,
\* execute_command_with_exit_status) called while ssh_connection_status is not
\* Connected raises ExecuteCommandError and makes no library call. (The three
\* methods leave the status as it is, so the status after the call is the
\* status it was called with.)
C2_NoSessionNoCommand ==
    (call.op \in CommandOps /\ ssh_connection_status # Connected) =>
        (result.exc = "ExecuteCommandError" /\ log = <<>>)

\* The part of line terminators in a line: what is left of s without the
\* "\n", "\r" or "\r\n" that ends it
WithoutTerminator(s) ==
    LET a == IF s # <<>> /\ s[Len(s)] = "\n" THEN SubSeq(s, 1, Len(s) - 1) ELSE s
    IN  IF a # <<>> /\ a[Len(a)] = "\r" THEN SubSeq(a, 1, Len(a) - 1) ELSE a

\* r is s without its carriage returns and line feeds: the other characters of
\* s, in their order
WithoutLineEnds(r, s) ==
    LET keep == {j \in DOMAIN s : s[j] \notin {"\r", "\n"}}
    IN  /\ Len(r) = Cardinality(keep)
        /\ \A j \in keep : r[Cardinality({k \in keep : k <= j})] = s[j]

\* The call was execute_command_with_output on a Connected session and the
\* command ran: exec_command() returned and readlines() returned log[2].data
RanCaptured ==
    /\ call.op = "execute_command_with_output"
    /\ ssh_connection_status = Connected
    /\ Len(log) = 2 /\ log[1] = LibCall("exec_command", "ok") /\ log[2].call = "readlines"

\* C10 as stated: execute_command_with_output returns the lines readlines()
\* gave, in order, each without its line terminator, when there is at least
\* one line, and raises ExecuteCommandError when there is none.
C10_ReturnsLinesWithoutTerminators ==
    RanCaptured =>
        LET output == log[2].data
        IN  IF output = <<>>
            THEN result.exc = "ExecuteCommandError"
            ELSE /\ result = NoError
                 /\ ret.kind = "lines"
                 /\ ret.lines = [i \in DOMAIN output |-> WithoutTerminator(output[i])]

\* C10 amended: execute_command_with_output returns one string per line that
\* readlines() gave, in order, each the line without any of its "\r" and "\n"
\* characters (those inside the line too), when there is at least one line,
\* and raises ExecuteCommandError when there is none.
C10_ReturnsLinesWithoutLineEnds ==
    RanCaptured =>
        LET output == log[2].data
        IN  IF output = <<>>
            THEN result.exc = "ExecuteCommandError" /\ ret = ReturnNone
            ELSE /\ result = NoError
                 /\ ret.kind = "lines"
                 /\ Len(ret.lines) = Len(output)
                 /\ \A i \in DOMAIN output : WithoutLineEnds(ret.lines[i], output[i])

C10_Witness ==
    /\ RanCaptured
    /\ log[2].data = << <<"a", "\r", "b", "\n">>, <<"o", "k", "\r", "\n">> >>
    /\ ret.lines = << <<"a", "b">>, <<"o", "k">> >>

----------------------------------------------------------------------------
(* Status and handles *)

\* C7: scp_connection_status = Connected only while ssh_connection_status =
\* Connected (closing the SSH session takes the channel out of Connected), and
\* so a push_file or pull_file called when the SSH session is not Connected
\* raises SCPConnectionError without calling put() or get().
C7_ChannelNeedsSession ==
    /\ scp_connection_status = Connected => ssh_connection_status = Connected
    /\ (call.op \in {"push_file", "pull_file"} /\ ssh_connection_status # Connected) =>
          (result.exc = "SCPConnectionError" /\ log = <<>>)

\* C8: in every state of an object its caller holds, ssh_session is not None
\* exactly when ssh_connection_status = Connected, and scp_session is not None
\* exactly when scp_connection_status = Connected.
C8_HandleIffConnected ==
    Usable =>
        /\ ssh_session # None <=> ssh_connection_status = Connected
        /\ scp_session # None <=> scp_connection_status = Connected

\* The step is a call, other than a connect, that fails its precondition check
FailsSSHPrecondition ==
    /\ call'.op \in {"ssh_disconnect", "scp_connect"} \cup CommandOps
    /\ ssh_connection_status # Connected
FailsSCPPrecondition ==
    /\ call'.op \in {"scp_disconnect", "push_file", "pull_file"}
    /\ scp_connection_status # Connected

\* C9 as stated: a call other than a connect that fails its precondition check
\* leaves ssh_connection_status and scp_connection_status as they were.
C9_FailedPreconditionKeepsStatus ==
    [][(FailsSSHPrecondition \/ FailsSCPPrecondition) =>
          /\ ssh_connection_status' = ssh_connection_status
          /\ scp_connection_status' = scp_connection_status]_vars

\* C9 amended: a call other than ssh_connect and scp_connect that is made on a
\* session or channel that is not Connected leaves both statuses as they
\* were; scp_connect called while the SSH session is not Connected leaves
\* ssh_connection_status as it was and sets scp_connection_status to 0
\* (Connection Failed).
C9_FailedPreconditionStatus ==
    [][(FailsSSHPrecondition \/ FailsSCPPrecondition) =>
          /\ ssh_connection_status' = ssh_connection_status
          /\ scp_connection_status' =
                IF call'.op = "scp_connect" THEN ConnectionFailed
                ELSE scp_connection_status]_vars

C9_Witness ==
    /\ call.op = "scp_connect"
    /\ ssh_connection_status = Disconnected
    /\ result.exc = "SCPConnectionError" /\ log = <<>>
    /\ scp_connection_status = ConnectionFailed
    /\ scp_session # None

----------------------------------------------------------------------------
(* Remote commands: output and exit status *)

\* The call was execute_command_with_exit_status on a Connected session and the
\* command ran: exec_command() returned, readlines() returned log[2].data and
\* recv_exit_status() returned log[3].val
RanCapturedWithStatus ==
    /\ call.op = "execute_command_with_exit_status"
    /\ ssh_connection_status = Connected
    /\ Len(log) = 3 /\ log[1] = LibCall("exec_command", "ok")
    /\ log[2].call = "readlines" /\ log[3].call = "recv_exit_status"

\* C11: execute_command_with_exit_status returns the pair of the lines (each
\* without its line ends) and the exit status only when readlines() gave at
\* least one line and recv_exit_status() gave a status that is there and is
\* not 0; it raises ExecuteCommandError when there is no line, when the status
\* is 0 and when the status is absent (recv_exit_status() gives -1 when the
\* server sent no status).
C11_PairOnlyWithOutputAndStatus ==
    RanCapturedWithStatus =>
        LET output == log[2].data
            exit_status == log[3].val
        IN  IF output # <<>> /\ exit_status \notin {0, -1}
            THEN /\ result = NoError
                 /\ ret.kind = "lines_status"
                 /\ ret.status = exit_status
                 /\ Len(ret.lines) = Len(output)
                 /\ \A i \in DOMAIN output : WithoutLineEnds(ret.lines[i], output[i])
            ELSE result.exc = "ExecuteCommandError" /\ ret = ReturnNone

----------------------------------------------------------------------------
(* File transfer *)

CopyOps == {"push_file", "pull_file"}

\* C12: push_file and pull_file called while scp_connection_status is not
\* Connected (Disconnected: never opened or closed; or Connection Failed) raise
\* SCPConnectionError and make no library call: put() / get() is not called.
C12_NoChannelNoCopy ==
    [][(call'.op \in CopyOps /\ scp_connection_status # Connected) =>
          /\ result' = Raise("SCPConnectionError", "There is no established SCP connection")
          /\ log' = <<>>]_vars

C12_Witness ==
    /\ call.op = "pull_file"
    /\ scp_connection_status = ConnectionFailed
    /\ result.exc = "SCPConnectionError" /\ log = <<>>

\* The cause a failure of put() / get() stands for
CauseOfFailure(out) ==
    CASE out = "notfound" -> "LocalNotFound"
      [] out = "perm" -> "PermissionDenied"
      [] out = "timeout" -> "Timeout"
      [] out = "os" -> "OSError"
      [] out = "scp" -> "RemotePathInvalid"
      [] out = "ssh" -> "TransportFailure"
      [] OTHER -> "Unexpected"

\* The cause an SCPTransferError of push_file / of pull_file names in its message
PushCause(msg) ==
    CASE msg = "Local file not found" -> "LocalNotFound"
      [] msg = "Permission denied" -> "PermissionDenied"
      [] msg = "SCP operation timed out" -> "Timeout"
      [] msg = "Unknown OS error" -> "OSError"
      [] msg = "Remote path does not exist" -> "RemotePathInvalid"
      [] msg = "SSH Connection failed during SCP Put" -> "TransportFailure"
      [] msg = "Unexpected exception occurred during SCP Put" -> "Unexpected"
      [] OTHER -> "none"
PullCause(msg) ==
    CASE msg = "Local path does not exist" -> "LocalNotFound"
      [] msg = "Permission denied" -> "PermissionDenied"
      [] msg = "SCP operation timed out" -> "Timeout"
      [] msg = "Unknown OS error" -> "OSError"
      [] msg = "Unknown SCP error occurred" -> "RemotePathInvalid"
      [] msg = "SSH error occurred during SCP operation" -> "TransportFailure"
      [] msg = "Unexpected error occurred during SCP operation" -> "Unexpected"
      [] OTHER -> "none"

\* The call was push_file or pull_file on a Connected channel and put() / get()
\* raised
CopyFailed ==
    /\ call.op \in CopyOps
    /\ scp_connection_status = Connected
    /\ Len(log) = 1 /\ log[1].call \in {"put", "get"} /\ log[1].out # "ok"

\* C13: on a Connected channel every exception put() / get() raises reaches
\* the caller as SCPTransferError, whose message names the cause:
\* FileNotFoundError -> local file absent, PermissionError -> permission
\* denied, TimeoutError -> timed out, another OSError -> OS error,
\* SCPException -> remote path invalid / SCP error, paramiko.SSHException ->
\* transport failure, any other exception -> unexpected.
C13_CopyFailureIsTransferError ==
    CopyFailed =>
        /\ result.exc = "SCPTransferError"
        /\ CauseOfFailure(log[1].out) =
              (IF call.op = "push_file" THEN PushCause(result.msg) ELSE PullCause(result.msg))

C13_Witness ==
    /\ CopyFailed
    /\ call.op = "push_file" /\ log[1].out = "notfound"
    /\ result = Raise("SCPTransferError", "Local file not found")

----------------------------------------------------------------------------
(* Closing the session and the channel *)

\* C16: ssh_disconnect called while ssh_connection_status is not Connected
\* raises SSHConnectionError without calling close(); called while it is
\* Connected with close() returning, it sets the status to Disconnected, sets
\* ssh_session to None and raises nothing; a paramiko.SSHException or an
\* OSError raised by close() reaches the caller as SSHConnectionError.
C16_Disconnect ==
    [][call'.op = "ssh_disconnect" =>
          IF ssh_connection_status # Connected
          THEN result'.exc = "SSHConnectionError" /\ log' = <<>>
          ELSE /\ Len(log') = 1 /\ log'[1].call = "ssh_close"
               /\ log'[1].out = "ok" =>
                     /\ result' = NoError
                     /\ ssh_connection_status' = Disconnected
                     /\ ssh_session' = None
               /\ log'[1].out \in {"ssh", "os"} => result'.exc = "SSHConnectionError"]_vars

C16_Witness ==
    /\ call.op = "ssh_disconnect"
    /\ log = <<LibCall("ssh_close", "os")>>
    /\ result = Raise("SSHConnectionError", "SSH Disconnection failed")

\* C18: scp_disconnect called while scp_connection_status is not Connected
\* raises SCPConnectionError without calling close(); called while it is
\* Connected with close() returning, it sets the status to Disconnected, sets
\* scp_session to None and raises nothing; any exception raised by close()
\* reaches the caller as SCPConnectionError.
C18_CloseChannel ==
    [][call'.op = "scp_disconnect" =>
          IF scp_connection_status # Connected
          THEN result'.exc = "SCPConnectionError" /\ log' = <<>>
          ELSE /\ Len(log') = 1 /\ log'[1].call = "scp_close"
               /\ log'[1].out = "ok" =>
                     /\ result' = NoError
                     /\ scp_connection_status' = Disconnected
                     /\ scp_session' = None
               /\ log'[1].out # "ok" => result'.exc = "SCPConnectionError"]_vars

C18_Witness ==
    /\ call.op = "scp_disconnect"
    /\ log = <<LibCall("scp_close", "other")>>
    /\ result.exc = "SCPConnectionError"
    /\ scp_connection_status = Connected

----------------------------------------------------------------------------
(* Opening the channel *)

\* C17: scp_connect called while ssh_connection_status is not Connected raises
\* SCPConnectionError without constructing a client; called while it is
\* Connected it constructs an SCPClient on the transport of the current
\* ssh_session and, the constructor returning, sets scp_connection_status to
\* Connected, stores the client in scp_session and returns it.
C17_OpenChannel ==
    [][call'.op = "scp_connect" =>
          IF ssh_connection_status # Connected
          THEN result'.exc = "SCPConnectionError" /\ log' = <<>>
          ELSE /\ Len(log') = 1 /\ log'[1].call = "SCPClient"
               /\ log'[1].out = "ok" =>
                     /\ result' = NoError
                     /\ scp_connection_status' = Connected
                     /\ scp_session' = ssh_session /\ scp_session' # None
                     /\ ret' = ReturnHandle(scp_session')]_vars

C17_Witness ==
    /\ call.op = "scp_connect"
    /\ log = <<LibCall("SCPClient", "ok")>>
    /\ result = NoError
    /\ scp_connection_status = Connected /\ ssh_connection_status = Connected
    /\ scp_session = ssh_session /\ ret = ReturnHandle(scp_session)

----------------------------------------------------------------------------
(* Facade: construction *)

\* The exception ssh_connect raises for the way its last attempt ended
ConnectErrorKind(last) ==
    CASE last = "auth" -> "SSHAuthenticationError"
      [] last = "os" -> "NetworkError"
      [] last = "ssh" -> "SSHConnectionError"
      [] OTHER -> "UnknownError"

\* C19: SSHHandler.__init__ makes one ssh_connect call and nothing more: at
\* least one and at most 2 attempts with at most one sleep, and no attempt
\* after the one that succeeded or was rejected. When the connect returns,
\* ssh_connection_status is Connected and scp_connection_status is
\* Disconnected (no channel); when it raises, the construction raises the
\* exception of that connect: SSHAuthenticationError, NetworkError,
\* SSHConnectionError or UnknownError by the end of its last attempt.
C19_ConstructionConnectsOnce ==
    call.op = "SSHHandler.__init__" =>
        /\ Cardinality(AttemptStarts(log)) \in 1..max_connection_attempts
        /\ Cardinality(Delays(log)) <= max_connection_attempts - 1
        /\ \A i \in AttemptEnds(log) : log[i].out \in {"ok", "auth"} => i = Len(log)
        /\ IF log[Len(log)].out = "ok"
           THEN /\ result = NoError
                /\ ssh_connection_status = Connected /\ ssh_session # None
                /\ scp_connection_status = Disconnected /\ scp_session = None
           ELSE /\ result.exc = ConnectErrorKind(log[Len(log)].out)
                /\ Cardinality(AttemptStarts(log)) < max_connection_attempts
                      => result.exc = "SSHAuthenticationError"

C19_Witness ==
    /\ call.op = "SSHHandler.__init__"
    /\ log = <<LibCall("connect", "os"), Sleep, LibCall("connect", "ssh")>>
    /\ result.exc = "SSHConnectionError"
    /\ ssh_connection_status = ConnectionFailed /\ scp_connection_status = Disconnected

----------------------------------------------------------------------------
(* Facade: teardown *)

\* C20: disconnect_all closes the SCP session, when scp_connection_status is
\* Connected, before anything else, and closes the SSH session, when
\* ssh_connection_status is Connected, last and only after the SCP close has
\* returned: no close() of the SSH session comes before a close() of the SCP
\* session, and a session that is not Connected is not closed. An
\* SCPConnectionError or SSHConnectionError of either close (any exception of
\* the SCP close(), a paramiko.SSHException or OSError of the SSH close())
\* reaches the caller as SSHError.
C20_ChannelClosedFirst ==
    [][call'.op = "disconnect_all" =>
          LET scp_closes == {i \in DOMAIN log' : log'[i].call = "scp_close"}
              ssh_closes == {i \in DOMAIN log' : log'[i].call = "ssh_close"}
          IN  /\ scp_closes = IF scp_connection_status = Connected THEN {1} ELSE {}
              /\ \A i \in ssh_closes : \A j \in scp_closes : j < i /\ log'[j].out = "ok"
              /\ ssh_closes = IF /\ ssh_connection_status = Connected
                                 /\ \A j \in scp_closes : log'[j].out = "ok"
                              THEN {Len(log')} ELSE {}
              /\ DOMAIN log' = scp_closes \cup ssh_closes
              /\ (\E j \in scp_closes : log'[j].out # "ok") => result'.exc = "SSHError"
              /\ (\E i \in ssh_closes : log'[i].out \in {"ssh", "os"}) => result'.exc = "SSHError"]_vars

C20_Witness ==
    /\ call.op = "disconnect_all"
    /\ log = <<LibCall("scp_close", "ok"), LibCall("ssh_close", "os")>>
    /\ result.exc = "SSHError"
    /\ scp_connection_status = Disconnected /\ ssh_connection_status = Connected

\* C14: a disconnect_all called right after a disconnect_all that returned
\* without an exception returns without an exception too, calls no close() and
\* leaves ssh_connection_status, scp_connection_status, ssh_session and
\* scp_session as the first call left them.
C14_TeardownIdempotent ==
    [][(call.op = "disconnect_all" /\ result = NoError /\ call'.op = "disconnect_all") =>
          /\ result' = NoError
          /\ log' = <<>>
          /\ ssh_connection_status' = ssh_connection_status
          /\ scp_connection_status' = scp_connection_status
          /\ ssh_session' = ssh_session
          /\ scp_session' = scp_session]_vars

C14_Witness ==
    /\ teardowns = 2
    /\ call.op = "disconnect_all" /\ result = NoError /\ log = <<>>
    /\ ssh_connection_status = Disconnected /\ scp_connection_status = Disconnected
    /\ ssh_session = None /\ scp_session = None
    /\ next_client > 1

\* C15: when disconnect_all returns without an exception, neither
\* ssh_connection_status nor scp_connection_status is Connected; and in the
\* end-to-end scenario (SSHHandler built without a key, scp_connect,
\* push_file, execute_command_with_output giving at least one line,
\* pull_file, disconnect_all, every library call returning) no call raises
\* and the last one leaves both statuses Disconnected.
C15_TeardownLeavesNothingConnected ==
    /\ (call.op = "disconnect_all" /\ result = NoError) =>
          /\ ssh_connection_status # Connected
          /\ scp_connection_status # Connected
    /\ scenario > 0 =>
          /\ call.op = ScenarioOps[scenario]
          /\ result = NoError
    /\ scenario = Len(ScenarioOps) =>
          /\ ssh_connection_status = Disconnected
          /\ scp_connection_status = Disconnected

C15_Witness ==
    /\ scenario = Len(ScenarioOps)
    /\ call.op = "disconnect_all" /\ result = NoError
    /\ log = <<LibCall("scp_close", "ok"), LibCall("ssh_close", "ok")>>
    /\ ssh_connection_status = Disconnected /\ scp_connection_status = Disconnected

----------------------------------------------------------------------------
(* Transport Session: the status a failed connect leaves *)

\* C21: a connect that raises SSHAuthenticationError leaves
\* ssh_connection_status at 0 (Connection Failed), as a connect that used up
\* its attempts does.
C21_RejectionLeavesFailed ==
    (call.op = "ssh_connect" /\ result.exc = "SSHAuthenticationError") =>
        ssh_connection_status = ConnectionFailed

\* C24: a connect called with force_connect while ssh_connection_status is
\* Connected that raises (SSHAuthenticationError, or NetworkError,
\* SSHConnectionError, UnknownError after the attempts are used up) does not
\* leave the status Connected; whenever the status is Connected, ssh_session
\* is a client whose connect call succeeded.
C24_ForcedFailureNotConnected ==
    [][/\ (/\ ConnectCalled' /\ call'.force
           /\ ssh_connection_status = Connected
           /\ result' # NoError)
          => ssh_connection_status' # Connected
       /\ ssh_connection_status' = Connected => ssh_session' \in open_clients']_vars

----------------------------------------------------------------------------
(* Transport Session: retry and the connect without a key *)

\* The position of the log where the first attempt ends
FirstAttemptEnd(lg) == CHOOSE i \in AttemptEnds(lg) : \A j \in AttemptEnds(lg) : i <= j

\* C22: when the first attempt of ssh_connect ends in a retryable failure
\* (OSError, paramiko.SSHException or any other exception) and the second
\* attempt succeeds, ssh_connect raises nothing, sets ssh_connection_status to
\* Connected, stores the client in ssh_session and returns it.
C22_RetryThenSuccess ==
    (/\ call.op = "ssh_connect"
     /\ Cardinality(AttemptEnds(log)) = 2
     /\ log[FirstAttemptEnd(log)].out \in RetryableOutcomes
     /\ log[Len(log)].out = "ok") =>
        /\ result = NoError
        /\ ssh_connection_status = Connected
        /\ ssh_session # None /\ ssh_session \in open_clients
        /\ ret = ReturnHandle(ssh_session)

C22_Witness ==
    /\ call = Called("ssh_connect", TRUE, FALSE)
    /\ log = <<LibCall("connect", "other"), Sleep, LibCall("connect", "ok")>>
    /\ result = NoError /\ ssh_connection_status = Connected
    /\ ret = ReturnHandle(ssh_session)

\* C23: in a connect without a key, an AuthenticationException of
\* connect(password='') does not end the attempt: auth_none() is called next,
\* and when auth_none() returns the connect succeeds; an
\* AuthenticationException of auth_none() ends the connect with
\* SSHAuthenticationError and no further attempt; an exception of another
\* class, of connect() or of auth_none(), in the first attempt is followed by
\* the sleep and a second attempt.
C23_KeylessRejectionTolerated ==
    (ConnectCalled /\ ~call.key) =>
        \A i \in DOMAIN log :
            /\ log[i] = LibCall("connect", "auth") =>
                  i < Len(log) /\ log[i + 1].call = "auth_none"
            /\ log[i] = LibCall("auth_none", "ok") =>
                  /\ i = Len(log)
                  /\ result = NoError /\ ssh_connection_status = Connected
            /\ log[i] = LibCall("auth_none", "auth") =>
                  i = Len(log) /\ result.exc = "SSHAuthenticationError"
            /\ (/\ i \in AttemptEnds(log)
                /\ log[i].out \in RetryableOutcomes
                /\ Cardinality({j \in AttemptStarts(log) : j <= i}) = 1) =>
                  /\ i + 2 <= Len(log)
                  /\ log[i + 1] = Sleep
                  /\ log[i + 2].call = "connect"

C23_Witness ==
    /\ call = Called("ssh_connect", FALSE, FALSE)
    /\ log = <<LibCall("connect", "os"), Sleep,
               LibCall("connect", "auth"), LibCall("auth_none", "ok")>>
    /\ result = NoError /\ ssh_connection_status = Connected

----------------------------------------------------------------------------
(* Failed closes, and the calls that leave the statuses alone *)

\* C25: when the close() of the SCP session raises inside disconnect_all,
\* disconnect_all raises SSHError without calling the close() of the SSH
\* session, and ssh_connection_status, ssh_session, scp_connection_status
\* (Connected) and scp_session are what they were; a close() that raises
\* inside ssh_disconnect leaves ssh_connection_status Connected and
\* ssh_session in place, and one that raises inside scp_disconnect leaves
\* scp_connection_status Connected and scp_session in place.
C25_FailedCloseKeepsState ==
    [][/\ (/\ call'.op = "disconnect_all"
           /\ log' # <<>> /\ log'[1].call = "scp_close" /\ log'[1].out # "ok") =>
              /\ result'.exc = "SSHError"
              /\ Len(log') = 1
              /\ ssh_connection_status' = ssh_connection_status
              /\ ssh_session' = ssh_session
              /\ scp_connection_status = Connected /\ scp_connection_status' = Connected
              /\ scp_session' = scp_session
       /\ (/\ call'.op \in {"ssh_disconnect", "disconnect_all"}
           /\ log' # <<>> /\ log'[Len(log')].call = "ssh_close" /\ log'[Len(log')].out # "ok") =>
              /\ result' # NoError
              /\ ssh_connection_status = Connected /\ ssh_connection_status' = Connected
              /\ ssh_session' = ssh_session
       /\ (/\ call'.op = "scp_disconnect"
           /\ log' # <<>> /\ log'[1].out # "ok") =>
              /\ result' # NoError
              /\ scp_connection_status = Connected /\ scp_connection_status' = Connected
              /\ scp_session' = scp_session]_vars

C25_Witness ==
    /\ call.op = "disconnect_all"
    /\ log = <<LibCall("scp_close", "os")>>
    /\ result.exc = "SSHError"
    /\ ssh_connection_status = Connected /\ ssh_session # None
    /\ scp_connection_status = Connected /\ scp_session # None

\* The methods that assign ssh_connection_status, and those that assign
\* scp_connection_status
SSHStatusOps == {"SSHHandler.__init__", "ssh_connect", "ssh_disconnect", "disconnect_all"}
SCPStatusOps == {"scp_connect", "scp_disconnect", "disconnect_all"}

\* C26: execute_command, execute_command_with_output,
\* execute_command_with_exit_status, push_file and pull_file leave
\* ssh_connection_status, scp_connection_status, ssh_session and scp_session
\* as they were, whether they return or raise; ssh_connection_status changes
\* only in a connect (ssh_connect, also the one of SSHHandler.__init__),
\* ssh_disconnect and disconnect_all, and scp_connection_status only in
\* scp_connect, scp_disconnect and disconnect_all.
C26_CommandsAndCopiesKeepState ==
    [][/\ call'.op \in CommandOps \cup CopyOps =>
              /\ ssh_connection_status' = ssh_connection_status
              /\ scp_connection_status' = scp_connection_status
              /\ ssh_session' = ssh_session
              /\ scp_session' = scp_session
       /\ ssh_connection_status' # ssh_connection_status => call'.op \in SSHStatusOps
       /\ scp_connection_status' # scp_connection_status => call'.op \in SCPStatusOps]_vars

C26_Witness ==
    /\ call.op = "execute_command"
    /\ log = <<LibCall("exec_command", "ssh")>>
    /\ result # NoError
    /\ ssh_connection_status = Connected /\ ssh_session # None
    /\ scp_connection_status = Connected /\ scp_session # None

====
